---- MODULE Spec2Model ----
(***************************************************************************)
(* Model of the time-traveling interpreter of src/interpreter.py: one      *)
(* Driver process, one current Kernel process and the forked snapshot      *)
(* Kernels, communicating over one duplex Pipe.                            *)
(*                                                                         *)
(* Every process is modelled by its position in the code (dpc for the      *)
(* Driver, kpc[p] for the Kernel with pid p); one action is one step of    *)
(* one process between two points where another process can be observed   *)
(* (a send, a blocking recv, a fork, a signal call, a kill, an exit).      *)
(***************************************************************************)
EXTENDS Integers, Sequences, FiniteSets, TLC

\* Number of fork() calls the operating system grants in one session.
MaxForks == 3

\* Pid of the first Kernel, started by Driver.__init__; forked snapshots get
\* the following pids.
FirstPid == 1

Pids == FirstPid .. (FirstPid + MaxForks)

\* The code cells the front end submits.
Cells == {"x = 1", "x = x + 1", "y = 1"}

VARIABLES
    \* ---- Driver (src/interpreter.py, class Driver) ----
    checkpoint_pids,   \* Driver.checkpoint_pids: sequence of snapshot pids
    kernel_pid,        \* Driver.kernel_client.kernel_pid
    dpc,               \* position of the Driver in exec_cell / undo / shutdown
    dcell,             \* the argument `cell` of the running exec_cell
    dlocal_pid,        \* the local `checkpoint_pid` of the running undo
    dshut_i,           \* index of the loop over checkpoint_pids in shutdown
    dret,              \* where the SIGTERM handler returns to, or "none"
    driver_exc,        \* exception the last Driver operation raised, or "none"
    \* ---- Pipe ----
    to_kernel,         \* messages sent by the Driver, not yet received
    to_driver,         \* messages sent by Kernels, not yet received
    \* ---- Kernel processes ----
    kpc,               \* position of each Kernel process in its code
    local_env,         \* Kernel.local_env of each process
    self_pid,          \* Kernel.pid (self.pid) of each process
    kcell,             \* msg.cell of the CellInput a Kernel is executing
    kchild,            \* the local `pid` returned by os.fork() in the parent
    next_pid,          \* the pid the operating system gives the next fork
    \* ---- history of the session (observations, not program state) ----
    pre_envs,          \* environment before each not-yet-undone submit
    expect_env,        \* environment the running / last undo must restore
    hist,              \* completed Driver operations, oldest first
    klog               \* per process: parent pid (0: the Driver), environment
                       \* at its fork, whether SIGCONT was sent to it, number
                       \* of CheckpointRestored it sent, number of
                       \* CheckpointCreated sent carrying its pid

vars == << checkpoint_pids, kernel_pid, dpc, dcell, dlocal_pid, dshut_i, dret, driver_exc,
           to_kernel, to_driver, kpc, local_env, self_pid, kcell, kchild,
           next_pid, pre_envs, expect_env, hist, klog >>

driver_vars == << checkpoint_pids, kernel_pid, dpc, dcell, dlocal_pid, dshut_i, dret,
                  driver_exc >>
kernel_vars == << kpc, local_env, self_pid, kcell, kchild, next_pid >>
hist_vars   == << pre_envs, expect_env, hist, klog >>

----------------------------------------------------------------------------
(* Messages *)

\* kernel_message.CellInput(cell)
CellInput(cell) == [type |-> "CellInput", cell |-> cell]
\* kernel_message.Checkpoint()
Checkpoint == [type |-> "Checkpoint", cell |-> ""]
\* kernel_message.Shutdown()
Shutdown == [type |-> "Shutdown", cell |-> ""]

\* has_response of each kernel message class
HasResponse(msg) ==
    CASE msg.type = "CellInput"  -> FALSE
      [] msg.type = "Checkpoint" -> TRUE
      [] msg.type = "Shutdown"   -> TRUE

\* driver_message.CheckpointCreated(checkpoint_pid)
CheckpointCreated(pid) == [type |-> "CheckpointCreated", checkpoint_pid |-> pid]
\* driver_message.Ack() and driver_message.CheckpointRestored(): Kernel.run
\* and Kernel.checkpoint construct them, but src/driver_message.py defines
\* only CheckpointCreated.  They are taken from the message protocol of the
\* specification: responses without payload (the field is a placeholder).
Ack == [type |-> "Ack", checkpoint_pid |-> 0]
CheckpointRestored == [type |-> "CheckpointRestored", checkpoint_pid |-> 0]

----------------------------------------------------------------------------
(* Environments: a set of <<name, value>> bindings, at most one per name *)

EmptyEnv == {}

Bound(env, name) == \E b \in env : b[1] = name

Lookup(env, name) == (CHOOSE b \in env : b[1] = name)[2]

Assign(env, name, value) == {b \in env : b[1] # name} \cup {<<name, value>>}

\* exec(cell, global_env, local_env): the environment after the cell, or a
\* raised NameError when the cell reads a name that is not bound.
Exec(cell, env) ==
    CASE cell = "x = 1" ->
            [raised |-> FALSE, env |-> Assign(env, "x", 1)]
      [] cell = "x = x + 1" ->
            IF Bound(env, "x")
            THEN [raised |-> FALSE, env |-> Assign(env, "x", Lookup(env, "x") + 1)]
            ELSE [raised |-> TRUE, env |-> env]
      [] cell = "y = 1" ->
            [raised |-> FALSE, env |-> Assign(env, "y", 1)]

----------------------------------------------------------------------------
(* Process states *)

\* Positions of a forked child between fork() and the return of pause().
ChildAsleep == {"child_forked", "child_installed", "child_paused"}

\* Positions of a process that has exited or was killed, or never existed.
Gone == {"unborn", "exited", "crashed", "killed"}

Alive(p) == kpc[p] \notin Gone

\* Worker states of the specification, read off the process position.
Terminated(p) == kpc[p] \in {"exited", "crashed", "killed"}
Suspended(p)  == kpc[p] \in ChildAsleep
Running(p)    == Alive(p) /\ ~Suspended(p)

----------------------------------------------------------------------------
Init ==
    /\ checkpoint_pids = << >>
    /\ kernel_pid = FirstPid
    /\ dpc = "idle"
    /\ dcell = ""
    /\ dlocal_pid = 0
    /\ dshut_i = 0
    /\ dret = "none"
    /\ driver_exc = "none"
    /\ to_kernel = << >>
    /\ to_driver = << >>
    /\ kpc = [p \in Pids |-> IF p = FirstPid THEN "recv" ELSE "unborn"]
    /\ local_env = [p \in Pids |-> EmptyEnv]
    /\ self_pid = [p \in Pids |-> IF p = FirstPid THEN FirstPid ELSE 0]
    /\ kcell = [p \in Pids |-> ""]
    /\ kchild = [p \in Pids |-> 0]
    /\ next_pid = FirstPid + 1
    /\ pre_envs = << >>
    /\ expect_env = EmptyEnv
    /\ hist = << >>
    /\ klog = [p \in Pids |-> [parent |-> 0, fork_env |-> EmptyEnv, resumed |-> FALSE,
                               restored |-> 0, created |-> 0]]

----------------------------------------------------------------------------
(* Signals *)

\* os.kill(pid, SIGCONT): what the signal does to a process at position pc.
\* Only a process blocked in signal.pause() is woken.  Before
\* signal.signal() the disposition is the default one (continue a stopped
\* process: nothing for a process that is not stopped); after it the no-op
\* handler runs and the process goes on to where it was.
DeliverSIGCONT(pc) == IF pc = "child_paused" THEN "child_woken" ELSE pc

\* os.kill(pid, SIGKILL): the process is gone, whatever it was doing.
DeliverSIGKILL(pc) == IF pc \in Gone THEN pc ELSE "killed"

----------------------------------------------------------------------------
(* Pipe *)

\* Some Kernel or snapshot is alive and so holds the Kernel end of the pipe
\* open (the Driver keeps no copy of it after __init__); a send on a pipe
\* whose other end is closed raises BrokenPipeError.
PipeOpen == \E p \in Pids : Alive(p)

----------------------------------------------------------------------------
(* Driver.exec_cell *)

\* Variant of AppendPid that drops the new snapshot's pid.
AppendPid_Drop(pids, pid) == pids

\* Variant of AppendPid: the pid of the current Kernel is pushed instead of
\* the pid of the checkpoint.
AppendPid_Current(pids, pid) == Append(pids, kernel_pid)

\* self.checkpoint_pids.append(retmsg.checkpoint_pid)
AppendPid(pids, pid) == Append(pids, pid)

\* kernel_client.send_message(Checkpoint()): the send; the recv follows.
Driver_exec_cell_call(cell) ==
    /\ dpc = "idle"
    /\ next_pid \in Pids
    /\ PipeOpen
    /\ to_kernel' = Append(to_kernel, Checkpoint)
    /\ dpc' = "exec_recv_created"
    /\ dcell' = cell
    /\ driver_exc' = "none"
    /\ pre_envs' = Append(pre_envs, local_env[kernel_pid])
    /\ UNCHANGED << checkpoint_pids, kernel_pid, dlocal_pid, dshut_i, dret, to_driver,
                    kernel_vars, expect_env, hist, klog >>

\* retmsg = kernel_pipe.recv(); checkpoint_pids.append(retmsg.checkpoint_pid)
Driver_exec_cell_recv_created ==
    /\ dpc = "exec_recv_created"
    /\ to_driver # << >>
    /\ to_driver' = Tail(to_driver)
    /\ IF Head(to_driver).type = "CheckpointCreated"
       THEN /\ checkpoint_pids' = AppendPid(checkpoint_pids, Head(to_driver).checkpoint_pid)
            /\ dpc' = "exec_send_cell"
            /\ UNCHANGED driver_exc
       ELSE /\ driver_exc' = "AttributeError"
            /\ dpc' = "idle"
            /\ UNCHANGED checkpoint_pids
    /\ UNCHANGED << kernel_pid, dcell, dlocal_pid, dshut_i, dret, to_kernel, kernel_vars,
                    hist_vars >>

\* kernel_client.send_message(CellInput(cell)): the send
Driver_exec_cell_send ==
    /\ dpc = "exec_send_cell"
    /\ PipeOpen
    /\ to_kernel' = Append(to_kernel, CellInput(dcell))
    /\ dpc' = "exec_recv_ack"
    /\ UNCHANGED << checkpoint_pids, kernel_pid, dcell, dlocal_pid, dshut_i, dret, driver_exc,
                    to_driver, kernel_vars, hist_vars >>

\* kernel_client.send_message(CellInput(cell)): the recv; exec_cell returns
Driver_exec_cell_recv_ack ==
    /\ dpc = "exec_recv_ack"
    /\ to_driver # << >>
    /\ to_driver' = Tail(to_driver)
    /\ dpc' = "idle"
    /\ hist' = Append(hist, [op |-> "exec_cell", cell |-> dcell,
                             env |-> local_env[kernel_pid],
                             len |-> Len(checkpoint_pids)])
    /\ UNCHANGED << checkpoint_pids, kernel_pid, dcell, dlocal_pid, dshut_i, dret, driver_exc,
                    to_kernel, kernel_vars, pre_envs, expect_env, klog >>

----------------------------------------------------------------------------
(* Driver.undo *)

\* Variant of PopPid: pop(0), the oldest snapshot instead of the latest.
PopPid_Oldest(pids) == pids[1]

\* Variant of PopRest: the last pid is read but not removed from the list.
PopRest_Keep(pids) == pids

\* checkpoint_pids.pop(): the pid it returns, and the list it leaves
PopPid(pids) == pids[Len(pids)]
PopRest(pids) == SubSeq(pids, 1, Len(pids) - 1)

\* len(checkpoint_pids) == 0: `raise Error(...)`; the name Error is bound
\* nowhere in the module, so evaluating it raises NameError.
Driver_undo_empty ==
    /\ dpc = "idle"
    /\ Len(checkpoint_pids) = 0
    /\ driver_exc' = "NameError"
    /\ UNCHANGED << checkpoint_pids, kernel_pid, dpc, dcell, dlocal_pid, dshut_i, dret,
                    to_kernel, to_driver, kernel_vars, hist_vars >>

\* Variant of Driver_undo_pop: Shutdown is sent without waiting for its
\* acknowledgment (send() instead of send_message()).
Driver_undo_pop_NoWait ==
    /\ dpc = "idle"
    /\ Len(checkpoint_pids) # 0
    /\ dlocal_pid' = PopPid(checkpoint_pids)
    /\ checkpoint_pids' = PopRest(checkpoint_pids)
    /\ PipeOpen
    /\ to_kernel' = Append(to_kernel, Shutdown)
    /\ dpc' = "undo_kill"
    /\ driver_exc' = "none"
    /\ expect_env' = pre_envs[Len(pre_envs)]
    /\ pre_envs' = SubSeq(pre_envs, 1, Len(pre_envs) - 1)
    /\ UNCHANGED << kernel_pid, dcell, dshut_i, dret, to_driver, kernel_vars, hist, klog >>

\* checkpoint_pid = checkpoint_pids.pop(); send_message(Shutdown()): the send
Driver_undo_pop ==
    /\ dpc = "idle"
    /\ Len(checkpoint_pids) # 0
    /\ dlocal_pid' = PopPid(checkpoint_pids)
    /\ checkpoint_pids' = PopRest(checkpoint_pids)
    /\ PipeOpen
    /\ to_kernel' = Append(to_kernel, Shutdown)
    /\ dpc' = "undo_recv_ack"
    /\ driver_exc' = "none"
    /\ expect_env' = pre_envs[Len(pre_envs)]
    /\ pre_envs' = SubSeq(pre_envs, 1, Len(pre_envs) - 1)
    /\ UNCHANGED << kernel_pid, dcell, dshut_i, dret, to_driver, kernel_vars, hist, klog >>

\* ack = send_message(Shutdown()): the recv
Driver_undo_recv_ack ==
    /\ dpc = "undo_recv_ack"
    /\ to_driver # << >>
    /\ to_driver' = Tail(to_driver)
    /\ dpc' = "undo_kill"
    /\ UNCHANGED << checkpoint_pids, kernel_pid, dcell, dlocal_pid, dshut_i, dret, driver_exc,
                    to_kernel, kernel_vars, hist_vars >>

\* kernel_client.kernel_pid = checkpoint_pid; os.kill(checkpoint_pid, SIGCONT)
Driver_undo_kill ==
    /\ dpc = "undo_kill"
    /\ kernel_pid' = dlocal_pid
    /\ kpc' = [kpc EXCEPT ![dlocal_pid] = DeliverSIGCONT(@)]
    /\ dpc' = "undo_recv_restored"
    /\ klog' = [klog EXCEPT ![dlocal_pid].resumed = TRUE]
    /\ UNCHANGED << checkpoint_pids, dcell, dlocal_pid, dshut_i, dret, driver_exc, to_kernel,
                    to_driver, local_env, self_pid, kcell, kchild, next_pid,
                    pre_envs, expect_env, hist >>

\* msg = kernel_pipe.recv(); assert isinstance(msg, CheckpointRestored)
Driver_undo_recv_restored ==
    /\ dpc = "undo_recv_restored"
    /\ to_driver # << >>
    /\ to_driver' = Tail(to_driver)
    /\ dpc' = "idle"
    /\ IF Head(to_driver).type = "CheckpointRestored"
       THEN /\ hist' = Append(hist, [op |-> "undo", cell |-> "",
                                     env |-> local_env[kernel_pid],
                                     len |-> Len(checkpoint_pids)])
            /\ UNCHANGED driver_exc
       ELSE /\ driver_exc' = "AssertionError"
            /\ UNCHANGED hist
    /\ UNCHANGED << checkpoint_pids, kernel_pid, dcell, dlocal_pid, dshut_i, dret, to_kernel,
                    kernel_vars, pre_envs, expect_env, klog >>

----------------------------------------------------------------------------
(* Driver.shutdown *)

\* Variant of Driver_shutdown_call: the loop starts at the second pid.
Driver_shutdown_call_SkipFirst ==
    /\ dpc = "idle"
    /\ dpc' = "shutdown_kill"
    /\ dshut_i' = 2
    /\ driver_exc' = "none"
    /\ UNCHANGED << checkpoint_pids, kernel_pid, dcell, dlocal_pid, dret, to_kernel,
                    to_driver, kernel_vars, hist_vars >>

\* shutdown() is entered: the loop over checkpoint_pids starts
Driver_shutdown_call ==
    /\ dpc = "idle"
    /\ dpc' = "shutdown_kill"
    /\ dshut_i' = 1
    /\ driver_exc' = "none"
    /\ UNCHANGED << checkpoint_pids, kernel_pid, dcell, dlocal_pid, dret, to_kernel,
                    to_driver, kernel_vars, hist_vars >>

\* os.kill(checkpoint_pid, SIGKILL), one iteration of the loop
Driver_shutdown_kill ==
    /\ dpc = "shutdown_kill"
    /\ dshut_i <= Len(checkpoint_pids)
    /\ kpc' = [kpc EXCEPT ![checkpoint_pids[dshut_i]] = DeliverSIGKILL(@)]
    /\ dshut_i' = dshut_i + 1
    /\ UNCHANGED << checkpoint_pids, kernel_pid, dpc, dcell, dlocal_pid, dret,
                    driver_exc, to_kernel, to_driver, local_env, self_pid, kcell,
                    kchild, next_pid, hist_vars >>

\* send_message(Shutdown()): the send, after the loop
Driver_shutdown_send ==
    /\ dpc = "shutdown_kill"
    /\ dshut_i > Len(checkpoint_pids)
    /\ PipeOpen
    /\ to_kernel' = Append(to_kernel, Shutdown)
    /\ dpc' = "shutdown_recv_ack"
    /\ UNCHANGED << checkpoint_pids, kernel_pid, dcell, dlocal_pid, dshut_i, dret, driver_exc,
                    to_driver, kernel_vars, hist_vars >>

\* send_message(Shutdown()): the recv; shutdown returns, to its caller or,
\* when it ran as the SIGTERM handler of main(), into the interrupted
\* operation
Driver_shutdown_recv_ack ==
    /\ dpc = "shutdown_recv_ack"
    /\ to_driver # << >>
    /\ to_driver' = Tail(to_driver)
    /\ IF dret \in {"none", "handled"}
       THEN dpc' = "down" /\ UNCHANGED dret
       ELSE dpc' = dret /\ dret' = "handled"
    /\ UNCHANGED << checkpoint_pids, kernel_pid, dcell, dlocal_pid, dshut_i, driver_exc,
                    to_kernel, kernel_vars, hist_vars >>

----------------------------------------------------------------------------
(* Kernel.run, Kernel.checkpoint, Kernel.next *)

\* msg = self.driver_pipe.recv() and the isinstance dispatch
Kernel_run_recv(p) ==
    /\ kpc[p] = "recv"
    /\ to_kernel # << >>
    /\ to_kernel' = Tail(to_kernel)
    /\ kpc' = [kpc EXCEPT ![p] =
                 CASE Head(to_kernel).type = "CellInput"  -> "next"
                   [] Head(to_kernel).type = "Checkpoint" -> "checkpoint"
                   [] Head(to_kernel).type = "Shutdown"   -> "shutdown"]
    /\ kcell' = [kcell EXCEPT ![p] = Head(to_kernel).cell]
    /\ UNCHANGED << driver_vars, to_driver, local_env, self_pid, kchild, next_pid,
                    hist_vars >>

\* Variant of Kernel_next: the environment is shared with the snapshots
\* instead of copied, so the cell changes it in every live process.
Kernel_next_SharedEnv(p) ==
    /\ kpc[p] = "next"
    /\ IF Exec(kcell[p], local_env[p]).raised
       THEN /\ kpc' = [kpc EXCEPT ![p] = "crashed"]
            /\ UNCHANGED local_env
       ELSE /\ kpc' = [kpc EXCEPT ![p] = "send_ack"]
            /\ local_env' = [q \in Pids |->
                                IF Alive(q) THEN Exec(kcell[p], local_env[p]).env
                                ELSE local_env[q]]
    /\ UNCHANGED << driver_vars, to_kernel, to_driver, self_pid, kcell, kchild,
                    next_pid, hist_vars >>

\* self.next(msg.cell): exec() updates local_env, or raises; nothing in
\* next() or run() catches the exception, so it ends the process.
Kernel_next(p) ==
    /\ kpc[p] = "next"
    /\ IF Exec(kcell[p], local_env[p]).raised
       THEN /\ kpc' = [kpc EXCEPT ![p] = "crashed"]
            /\ UNCHANGED local_env
       ELSE /\ kpc' = [kpc EXCEPT ![p] = "send_ack"]
            /\ local_env' = [local_env EXCEPT ![p] = Exec(kcell[p], local_env[p]).env]
    /\ UNCHANGED << driver_vars, to_kernel, to_driver, self_pid, kcell, kchild,
                    next_pid, hist_vars >>

\* self.driver_pipe.send(driver_message.Ack()) after a CellInput
Kernel_send_ack(p) ==
    /\ kpc[p] = "send_ack"
    /\ to_driver' = Append(to_driver, Ack)
    /\ kpc' = [kpc EXCEPT ![p] = "recv"]
    /\ UNCHANGED << driver_vars, to_kernel, local_env, self_pid, kcell, kchild,
                    next_pid, hist_vars >>

\* Variant of Kernel_checkpoint_fork: the child starts from a fresh
\* environment instead of a copy of the parent's.
Kernel_checkpoint_fork_FreshEnv(p) ==
    /\ kpc[p] = "checkpoint"
    /\ next_pid \in Pids
    /\ kpc' = [kpc EXCEPT ![p] = "send_created", ![next_pid] = "child_forked"]
    /\ local_env' = [local_env EXCEPT ![next_pid] = EmptyEnv]
    /\ self_pid' = [self_pid EXCEPT ![next_pid] = self_pid[p]]
    /\ kcell' = [kcell EXCEPT ![next_pid] = kcell[p]]
    /\ kchild' = [kchild EXCEPT ![p] = next_pid, ![next_pid] = 0]
    /\ next_pid' = next_pid + 1
    /\ klog' = [klog EXCEPT ![next_pid] = [parent |-> p, fork_env |-> local_env[p],
                                           resumed |-> FALSE, restored |-> 0,
                                           created |-> 0]]
    /\ UNCHANGED << driver_vars, to_kernel, to_driver, pre_envs, expect_env, hist >>

\* pid = os.fork(): the child is a copy of the parent, at the line after
\* the fork; the parent gets the child's pid.
Kernel_checkpoint_fork(p) ==
    /\ kpc[p] = "checkpoint"
    /\ next_pid \in Pids
    /\ kpc' = [kpc EXCEPT ![p] = "send_created", ![next_pid] = "child_forked"]
    /\ local_env' = [local_env EXCEPT ![next_pid] = local_env[p]]
    /\ self_pid' = [self_pid EXCEPT ![next_pid] = self_pid[p]]
    /\ kcell' = [kcell EXCEPT ![next_pid] = kcell[p]]
    /\ kchild' = [kchild EXCEPT ![p] = next_pid, ![next_pid] = 0]
    /\ next_pid' = next_pid + 1
    /\ klog' = [klog EXCEPT ![next_pid] = [parent |-> p, fork_env |-> local_env[p],
                                           resumed |-> FALSE, restored |-> 0,
                                           created |-> 0]]
    /\ UNCHANGED << driver_vars, to_kernel, to_driver, pre_envs, expect_env, hist >>

\* Variant of Kernel_send_created: the parent reports its own pid
\* (current_pid) instead of the pid of the child.
Kernel_send_created_OwnPid(p) ==
    /\ kpc[p] = "send_created"
    /\ to_driver' = Append(to_driver, CheckpointCreated(self_pid[p]))
    /\ kpc' = [kpc EXCEPT ![p] = "recv"]
    /\ klog' = [klog EXCEPT ![self_pid[p]].created = @ + 1]
    /\ UNCHANGED << driver_vars, to_kernel, local_env, self_pid, kcell, kchild,
                    next_pid, pre_envs, expect_env, hist >>

\* parent: return pid; driver_pipe.send(CheckpointCreated(checkpoint_pid))
Kernel_send_created(p) ==
    /\ kpc[p] = "send_created"
    /\ to_driver' = Append(to_driver, CheckpointCreated(kchild[p]))
    /\ kpc' = [kpc EXCEPT ![p] = "recv"]
    /\ klog' = [klog EXCEPT ![kchild[p]].created = @ + 1]
    /\ UNCHANGED << driver_vars, to_kernel, local_env, self_pid, kcell, kchild,
                    next_pid, pre_envs, expect_env, hist >>

\* child: signal.signal(signal.SIGCONT, lambda signum, stack: None)
Kernel_child_signal(p) ==
    /\ kpc[p] = "child_forked"
    /\ kpc' = [kpc EXCEPT ![p] = "child_installed"]
    /\ UNCHANGED << driver_vars, to_kernel, to_driver, local_env, self_pid, kcell,
                    kchild, next_pid, hist_vars >>

\* Variant of Kernel_child_pause: the child does not wait for the signal
\* and goes on as a restored Kernel.
Kernel_child_pause_NoWait(p) ==
    /\ kpc[p] = "child_installed"
    /\ kpc' = [kpc EXCEPT ![p] = "child_woken"]
    /\ UNCHANGED << driver_vars, to_kernel, to_driver, local_env, self_pid, kcell,
                    kchild, next_pid, hist_vars >>

\* child: signal.pause() is entered; it returns when a signal is handled
Kernel_child_pause(p) ==
    /\ kpc[p] = "child_installed"
    /\ kpc' = [kpc EXCEPT ![p] = "child_paused"]
    /\ UNCHANGED << driver_vars, to_kernel, to_driver, local_env, self_pid, kcell,
                    kchild, next_pid, hist_vars >>

\* child, after pause() returned: self.pid = os.getpid()
Kernel_child_getpid(p) ==
    /\ kpc[p] = "child_woken"
    /\ self_pid' = [self_pid EXCEPT ![p] = p]
    /\ kpc' = [kpc EXCEPT ![p] = "send_restored"]
    /\ UNCHANGED << driver_vars, to_kernel, to_driver, local_env, kcell, kchild,
                    next_pid, hist_vars >>

\* Variant of Kernel_send_restored: run() does not `continue` on the None
\* that checkpoint() returns in the child, and sends CheckpointCreated too.
Kernel_send_restored_FallThrough(p) ==
    /\ kpc[p] = "send_restored"
    /\ to_driver' = to_driver \o << CheckpointRestored, CheckpointCreated(0) >>
    /\ kpc' = [kpc EXCEPT ![p] = "recv"]
    /\ klog' = [klog EXCEPT ![p].restored = @ + 1]
    /\ UNCHANGED << driver_vars, to_kernel, local_env, self_pid, kcell, kchild,
                    next_pid, pre_envs, expect_env, hist >>

\* child: driver_pipe.send(CheckpointRestored()); checkpoint() returns None
\* and run() continues with the next recv
Kernel_send_restored(p) ==
    /\ kpc[p] = "send_restored"
    /\ to_driver' = Append(to_driver, CheckpointRestored)
    /\ kpc' = [kpc EXCEPT ![p] = "recv"]
    /\ klog' = [klog EXCEPT ![p].restored = @ + 1]
    /\ UNCHANGED << driver_vars, to_kernel, local_env, self_pid, kcell, kchild,
                    next_pid, pre_envs, expect_env, hist >>

\* Shutdown: self.driver_pipe.send(driver_message.Ack())
Kernel_shutdown_ack(p) ==
    /\ kpc[p] = "shutdown"
    /\ to_driver' = Append(to_driver, Ack)
    /\ kpc' = [kpc EXCEPT ![p] = "exit"]
    /\ UNCHANGED << driver_vars, to_kernel, local_env, self_pid, kcell, kchild,
                    next_pid, hist_vars >>

\* Shutdown: sys.exit(0)
Kernel_exit(p) ==
    /\ kpc[p] = "exit"
    /\ kpc' = [kpc EXCEPT ![p] = "exited"]
    /\ UNCHANGED << driver_vars, to_kernel, to_driver, local_env, self_pid, kcell,
                    kchild, next_pid, hist_vars >>

----------------------------------------------------------------------------
DriverStep ==
    \/ \E cell \in Cells : Driver_exec_cell_call(cell)
    \/ Driver_exec_cell_recv_created
    \/ Driver_exec_cell_send
    \/ Driver_exec_cell_recv_ack
    \/ Driver_undo_empty
    \/ Driver_undo_pop
    \/ Driver_undo_recv_ack
    \/ Driver_undo_kill
    \/ Driver_undo_recv_restored
    \/ Driver_shutdown_call
    \/ Driver_shutdown_kill
    \/ Driver_shutdown_send
    \/ Driver_shutdown_recv_ack

KernelStep(p) ==
    \/ Kernel_run_recv(p)
    \/ Kernel_next(p)
    \/ Kernel_send_ack(p)
    \/ Kernel_checkpoint_fork(p)
    \/ Kernel_send_created(p)
    \/ Kernel_child_signal(p)
    \/ Kernel_child_pause(p)
    \/ Kernel_child_getpid(p)
    \/ Kernel_send_restored(p)
    \/ Kernel_shutdown_ack(p)
    \/ Kernel_exit(p)

Next == DriverStep \/ \E p \in Pids : KernelStep(p)

Spec == Init /\ [][Next]_vars

\* Every process that can take a step is scheduled eventually.
FairSpec == Spec /\ WF_vars(DriverStep) /\ \A p \in Pids : WF_vars(KernelStep(p))

TypeOK ==
    /\ dpc \in {"idle", "exec_recv_created", "exec_send_cell", "exec_recv_ack",
                "undo_recv_ack", "undo_kill", "undo_recv_restored",
                "shutdown_kill", "shutdown_recv_ack", "down", "aborted"}
    /\ kernel_pid \in Pids
    /\ \A i \in 1 .. Len(checkpoint_pids) : checkpoint_pids[i] \in Pids
    /\ next_pid \in Pids \cup {FirstPid + MaxForks + 1}

----------------------------------------------------------------------------
(* Observations used by the properties *)

\* Number of completed operations of one kind in the history.
Completed(op) == Cardinality({i \in 1 .. Len(hist) : hist[i].op = op})

\* The Driver is between two operations (the last one has returned).
BetweenOps == dpc \in {"idle", "down"}

RunningPids == {p \in Pids : Running(p)}

\* The kind of message the Driver's pending recv() is meant to read.
ExpectedResponse ==
    CASE dpc = "exec_recv_created"  -> "CheckpointCreated"
      [] dpc = "exec_recv_ack"      -> "Ack"
      [] dpc = "undo_recv_ack"      -> "Ack"
      [] dpc = "undo_recv_restored" -> "CheckpointRestored"
      [] dpc = "shutdown_recv_ack"  -> "Ack"
      [] OTHER                      -> "nothing"

----------------------------------------------------------------------------
(* C1 *)

\* C1: when undo() has returned, the environment of the current Kernel is
\* exactly the environment that existed immediately before the most recent
\* not-yet-undone submit; when the undo emptied the stack, that is the
\* empty environment of the fresh session.
C1_UndoRestoresPreSubmitEnv ==
    (dpc = "idle" /\ hist # << >> /\ hist[Len(hist)].op = "undo")
        => /\ local_env[kernel_pid] = expect_env
           /\ hist[Len(hist)].env = expect_env
           /\ (checkpoint_pids = << >> => local_env[kernel_pid] = EmptyEnv)

\* submit("x = 1"); submit("x = x + 1"); undo() gave x = 1; undo() gave the
\* empty environment.
C1_Witness ==
    /\ dpc = "idle"
    /\ Len(hist) = 4
    /\ hist[1].op = "exec_cell" /\ hist[1].cell = "x = 1"
    /\ hist[2].op = "exec_cell" /\ hist[2].cell = "x = x + 1"
    /\ hist[2].env = {<<"x", 2>>}
    /\ hist[3].op = "undo" /\ hist[3].env = {<<"x", 1>>}
    /\ hist[4].op = "undo" /\ hist[4].env = EmptyEnv
    /\ local_env[kernel_pid] = EmptyEnv
    /\ checkpoint_pids = << >>

----------------------------------------------------------------------------
(* C2 *)

\* C2: in every reachable state at most one Worker process is Running
\* (alive and not a suspended snapshot).
C2_AtMostOneRunning == Cardinality(RunningPids) <= 1

----------------------------------------------------------------------------
(* C3 *)

\* C3: the resume signal is never lost: whenever undo() is about to call
\* os.kill(checkpoint_pid, SIGCONT), the snapshot has installed its handler
\* and is blocked in signal.pause().
C3_ResumeSignalNeverLost ==
    dpc = "undo_kill" => kpc[dlocal_pid] = "child_paused"

----------------------------------------------------------------------------
(* C4 *)

\* C4: a submit whose cell raises leaves the session usable: while the
\* Driver waits for the answer to its CellInput, the current Kernel is
\* alive to send it (and to serve the undo that follows).
C4_RaisingSubmitReturns ==
    dpc = "exec_recv_ack" => Alive(kernel_pid)

----------------------------------------------------------------------------
(* C5 *)

\* C5: once shutdown() is called, after any sequence of completed submits
\* and undos, eventually no Worker process of the session is alive.
C5_ShutdownTerminatesAll ==
    (dpc = "shutdown_kill") ~> (\A p \in Pids : ~Alive(p))

\* shutdown() has returned with two checkpoints on the stack and every
\* process of the session is gone.
C5_Witness ==
    /\ dpc = "down"
    /\ Len(checkpoint_pids) = 2
    /\ \A p \in Pids : ~Alive(p)
    /\ kpc[kernel_pid] = "exited"
    /\ \A i \in 1 .. 2 : kpc[checkpoint_pids[i]] = "killed"

----------------------------------------------------------------------------
(* C6 *)

\* C6: between operations the length of checkpoint_pids is the number of
\* completed submits minus the number of completed undos; and while a unit
\* of work is being sent or applied, its checkpoint (exactly one) is already
\* on the stack.
C6_StackLengthCountsSubmits ==
    /\ BetweenOps =>
          Len(checkpoint_pids) = Completed("exec_cell") - Completed("undo")
    /\ dpc \in {"exec_send_cell", "exec_recv_ack"} =>
          Len(checkpoint_pids) = Completed("exec_cell") - Completed("undo") + 1
    /\ \A i \in 1 .. Len(hist) :
          hist[i].len = Cardinality({j \in 1 .. i : hist[j].op = "exec_cell"})
                        - Cardinality({j \in 1 .. i : hist[j].op = "undo"})

\* Three submits from a fresh session have returned: the stack holds three.
C6_Witness ==
    /\ dpc = "idle"
    /\ Completed("exec_cell") = 3
    /\ Completed("undo") = 0
    /\ Len(checkpoint_pids) = 3

----------------------------------------------------------------------------
(* C7 *)

\* C7: undo() on an empty stack fails with the "nothing to undo" error that
\* the code names (Error), and the step changes nothing else: stack,
\* current Kernel, environments, pipe and processes are as before.
C7_UndoOnEmptyFailsCleanly ==
    [][ (dpc = "idle" /\ checkpoint_pids = << >> /\ dpc' = "idle"
         /\ driver_exc' # "none")
        => /\ driver_exc' = "Error"
           /\ UNCHANGED << checkpoint_pids, kernel_pid, to_kernel, to_driver,
                           kernel_vars >> ]_vars

----------------------------------------------------------------------------
(* C8 *)

\* C8: submit(a); undo(); submit(a) leaves the environment of the current
\* Kernel and the length of the undo stack as the first submit(a) left
\* them.
C8_ReplayAfterUndo ==
    \A i \in 1 .. Len(hist) - 2 :
        ( /\ hist[i].op = "exec_cell"
          /\ hist[i + 1].op = "undo"
          /\ hist[i + 2].op = "exec_cell"
          /\ hist[i + 2].cell = hist[i].cell )
        => /\ hist[i + 2].env = hist[i].env
           /\ hist[i + 2].len = hist[i].len

\* submit("y = 1"); then submit("x = 1"); undo(); submit("x = 1") from the
\* environment y = 1.
C8_Witness ==
    /\ dpc = "idle"
    /\ Len(hist) = 4
    /\ hist[1].op = "exec_cell" /\ hist[1].cell = "y = 1"
    /\ hist[2].op = "exec_cell" /\ hist[2].cell = "x = 1"
    /\ hist[3].op = "undo" /\ hist[3].env = {<<"y", 1>>}
    /\ hist[4].op = "exec_cell" /\ hist[4].cell = "x = 1"
    /\ hist[4].env = {<<"x", 1>>, <<"y", 1>>}
    /\ hist[4].len = 2

----------------------------------------------------------------------------
(* C9 *)

\* C9: CellInput is fire-and-forget: no Kernel sends a response for a
\* CellInput, and the Driver waits for a response only after a request
\* whose has_response is true.
C9_CellInputFireAndForget ==
    /\ \A p \in Pids : kpc[p] = "send_ack" => HasResponse(CellInput(kcell[p]))
    /\ dpc = "exec_recv_ack" => HasResponse(CellInput(dcell))

----------------------------------------------------------------------------
(* C10 *)

----------------------------------------------------------------------------
(* C11 *)

\* Reclamation of a terminated process.  Neither the Driver nor a Kernel
\* ever waits for a child (no waitpid, no Process.join): a terminated
\* process is reaped only by the operating system, once its parent has
\* terminated too and it has been handed to init.  The first Kernel is the
\* child of the Driver; a snapshot is the child of the Kernel that forked it.
Reaped(p) ==
    /\ Terminated(p)
    /\ klog[p].parent # 0
    /\ Terminated(klog[p].parent)

\* C11: once the Driver operation that terminated a Worker has completed,
\* every terminated Worker has been reaped: none remains a zombie.
C11_TerminatedWorkersReaped ==
    BetweenOps => \A p \in Pids : Terminated(p) => Reaped(p)

----------------------------------------------------------------------------
(* Failure of process duplication *)

\* The Driver's recv() positions.
DriverRecvPositions ==
    {"exec_recv_created", "exec_recv_ack", "undo_recv_ack", "undo_recv_restored",
     "shutdown_recv_ack"}

\* pid = os.fork() raises OSError: nothing in checkpoint() or run() catches
\* it, so it ends the Kernel process; no message is sent.
Kernel_checkpoint_fork_fail(p) ==
    /\ kpc[p] = "checkpoint"
    /\ kpc' = [kpc EXCEPT ![p] = "crashed"]
    /\ UNCHANGED << driver_vars, to_kernel, to_driver, local_env, self_pid, kcell,
                    kchild, next_pid, hist_vars >>

\* kernel_pipe.recv() with nothing to read and the Kernel end of the pipe
\* closed (no Kernel or snapshot is alive to hold it): recv() raises
\* EOFError, which no Driver method catches.
Driver_recv_eof ==
    /\ dpc \in DriverRecvPositions
    /\ to_driver = << >>
    /\ \A p \in Pids : ~Alive(p)
    /\ dpc' = "aborted"
    /\ driver_exc' = "EOFError"
    /\ UNCHANGED << checkpoint_pids, kernel_pid, dcell, dlocal_pid, dshut_i, dret,
                    to_kernel, to_driver, kernel_vars, hist_vars >>

NextForkFail ==
    \/ Next
    \/ \E p \in Pids : Kernel_checkpoint_fork_fail(p)
    \/ Driver_recv_eof

\* The session when the operating system may refuse a fork.
SpecForkFail == Init /\ [][NextForkFail]_vars

----------------------------------------------------------------------------
(* C12 *)

\* C12: a failed fork is reported to the Driver: while exec_cell waits for
\* CheckpointCreated, either the current Kernel is alive to answer, or an
\* answer is in the pipe, or the pipe is closed so that recv() raises; the
\* Driver is never left blocked on a pipe that only snapshots keep open.
C12_ForkFailureReported ==
    dpc = "exec_recv_created" =>
        \/ Alive(kernel_pid)
        \/ to_driver # << >>
        \/ \A p \in Pids : ~Alive(p)

----------------------------------------------------------------------------
(* C13 *)

\* The pids held in checkpoint_pids.
StackPids == {checkpoint_pids[i] : i \in 1 .. Len(checkpoint_pids)}

\* C13 as stated: in every reachable state every pid in checkpoint_pids is
\* a Suspended process.
C13_StackEntriesSuspended_Original ==
    \A p \in StackPids : Suspended(p)

\* C13 as amended: until shutdown() starts killing the snapshots, every pid
\* in checkpoint_pids is a Suspended process (never Running, never
\* Terminated).
C13_StackEntriesSuspended ==
    dpc \notin {"shutdown_kill", "shutdown_recv_ack", "down"} =>
        \A p \in StackPids : Suspended(p) /\ ~Running(p) /\ ~Terminated(p)

\* Two snapshots are on the stack, both blocked in signal.pause(), after a
\* submit, an undo and two more submits.
C13_Witness ==
    /\ dpc = "idle"
    /\ Len(checkpoint_pids) = 2
    /\ Completed("undo") = 1
    /\ \A p \in StackPids : kpc[p] = "child_paused"

----------------------------------------------------------------------------
(* C14 *)

\* C14: every request the Driver writes is eventually received, and each
\* one is received by the process the Driver regards as current
\* (kernel_client.kernel_pid) and by no other: the step that takes a
\* request off the pipe is a step of that process alone.
C14_OnlyCurrentKernelReceives ==
    /\ [][ (to_kernel # << >> /\ to_kernel' = Tail(to_kernel))
           => /\ kpc[kernel_pid] = "recv"
              /\ kpc'[kernel_pid] # "recv"
              /\ \A q \in Pids \ {kernel_pid} : kpc'[q] = kpc[q] ]_vars
    /\ (to_kernel # << >>) ~> (to_kernel = << >>)

\* A resumed snapshot, now the current Kernel, has taken a request off the
\* pipe while another snapshot is suspended.
C14_Witness ==
    /\ kernel_pid # FirstPid
    /\ kpc[kernel_pid] \in {"next", "checkpoint", "shutdown"}
    /\ to_kernel = << >>
    /\ \E q \in Pids : Suspended(q)

----------------------------------------------------------------------------
(* C15 *)

\* Positions of a forked child that has not yet sent CheckpointRestored.
BeforeRestored == ChildAsleep \cup {"child_woken", "send_restored"}

\* Positions of a Kernel in the dispatch loop of run().
Dispatching ==
    {"recv", "next", "send_ack", "checkpoint", "send_created", "shutdown", "exit"}

\* The message a step has just appended to the pipe to the Driver.
LastSent == to_driver'[Len(to_driver')]

\* C15: a forked snapshot sends nothing and reads nothing before the resume
\* signal; once resumed it sends exactly one CheckpointRestored before it
\* reads a request and never a CheckpointCreated for its own fork, then
\* dispatches as a Running Kernel.  For the same Checkpoint the parent
\* sends exactly one CheckpointCreated, carrying the child's pid, and stays
\* Running.
C15_SnapshotAndParentReplies ==
    /\ [](\A c \in Pids \ {FirstPid} : kpc[c] # "unborn" =>
            /\ klog[c].restored <= 1
            /\ kpc[c] \in BeforeRestored => klog[c].restored = 0
            /\ kpc[c] \in Dispatching => klog[c].restored = 1 /\ Running(c)
            /\ klog[c].restored = 1 => klog[c].resumed
            /\ kpc[c] \notin ChildAsleep \cup {"killed"} => klog[c].resumed
            /\ klog[c].created =
                 IF kpc[klog[c].parent] = "send_created" /\ kchild[klog[c].parent] = c
                 THEN 0 ELSE 1
            /\ kpc[klog[c].parent] = "send_created" => Running(klog[c].parent))
    /\ [][ /\ (to_kernel # << >> /\ to_kernel' = Tail(to_kernel)) =>
                \A c \in Pids : kpc[c] \in BeforeRestored => kpc'[c] = kpc[c]
           /\ (Len(to_driver') > Len(to_driver)
               /\ LastSent.type = "CheckpointCreated") =>
                \E p \in Pids :
                    /\ kpc[p] = "send_created" /\ kpc'[p] = "recv"
                    /\ LastSent.checkpoint_pid = kchild[p]
                    /\ klog[kchild[p]].parent = p
                    /\ Suspended(kchild[p])
           /\ (Len(to_driver') > Len(to_driver)
               /\ LastSent.type = "CheckpointRestored") =>
                \E c \in Pids \ {FirstPid} :
                    /\ kpc[c] = "send_restored" /\ kpc'[c] = "recv"
                    /\ klog[c].resumed
                    /\ klog[c].restored = 0 /\ klog'[c].restored = 1 ]_vars

\* A resumed snapshot has sent its one CheckpointRestored and is executing
\* a cell, and has itself been the parent of a later checkpoint.
C15_Witness ==
    \E c \in Pids \ {FirstPid} :
        /\ kpc[c] = "next"
        /\ klog[c].restored = 1
        /\ klog[c].created = 1
        /\ \E d \in Pids : klog[d].parent = c /\ klog[d].created = 1 /\ Suspended(d)

----------------------------------------------------------------------------
(* C16 *)

----------------------------------------------------------------------------
(* C17 *)

\* C17: the environment of a suspended snapshot is the environment its
\* parent had at the fork (the one recorded before the submit whose
\* checkpoint it is), whatever other processes have handled since; a step
\* changes the environment only of the process that executes a cell (or of
\* the child a fork creates).
C17_SnapshotEnvIndependent ==
    /\ [](\A c \in Pids : Suspended(c) => local_env[c] = klog[c].fork_env)
    /\ [](\A i \in 1 .. Len(checkpoint_pids) :
            Suspended(checkpoint_pids[i]) => local_env[checkpoint_pids[i]] = pre_envs[i])
    /\ [][ \A q \in Pids : local_env'[q] # local_env[q] =>
              kpc[q] \in {"next", "unborn"} ]_vars

\* A snapshot holds x = 1 while the current Kernel, after applying
\* "x = x + 1", holds x = 2.
C17_Witness ==
    \E c \in Pids :
        /\ Suspended(c)
        /\ local_env[c] = {<<"x", 1>>}
        /\ local_env[kernel_pid] = {<<"x", 2>>}
        /\ kpc[kernel_pid] = "recv"

----------------------------------------------------------------------------
(* SIGTERM: main() installs driver.shutdown() as the handler *)

\* SIGTERM is delivered while the main thread is in input(), exec_cell or
\* undo: the handler runs shutdown() on top of the interrupted code (a
\* blocked recv() is interrupted and retried after the handler returns).
Driver_sigterm ==
    /\ dret = "none"
    /\ dpc \in {"idle", "exec_recv_created", "exec_send_cell", "exec_recv_ack",
                "undo_recv_ack", "undo_kill", "undo_recv_restored"}
    /\ dret' = dpc
    /\ dpc' = "shutdown_kill"
    /\ dshut_i' = 1
    /\ UNCHANGED << checkpoint_pids, kernel_pid, dcell, dlocal_pid, driver_exc,
                    to_kernel, to_driver, kernel_vars, hist_vars >>

\* kernel_pipe.send() with the Kernel end of the pipe closed: the send
\* raises BrokenPipeError, which no Driver method and not main() catches.
\* undo() has popped its entry before it sends.
Driver_send_broken ==
    /\ ~PipeOpen
    /\ \/ /\ dpc = "idle"
          /\ UNCHANGED checkpoint_pids
       \/ /\ dpc = "idle"
          /\ Len(checkpoint_pids) # 0
          /\ checkpoint_pids' = PopRest(checkpoint_pids)
       \/ /\ dpc = "exec_send_cell"
          /\ UNCHANGED checkpoint_pids
       \/ /\ dpc = "shutdown_kill"
          /\ dshut_i > Len(checkpoint_pids)
          /\ UNCHANGED checkpoint_pids
    /\ dpc' = "aborted"
    /\ driver_exc' = "BrokenPipeError"
    /\ UNCHANGED << kernel_pid, dcell, dlocal_pid, dshut_i, dret,
                    to_kernel, to_driver, kernel_vars, hist_vars >>

\* The session run by main(), with at most one SIGTERM.
NextSigterm ==
    \/ Next
    \/ Driver_sigterm
    \/ Driver_recv_eof
    \/ Driver_send_broken

SpecSigterm == Init /\ [][NextSigterm]_vars

----------------------------------------------------------------------------
(* C18 *)

\* C18: the Driver never sends a request while it still awaits the response
\* to an earlier one, also when shutdown() runs as the SIGTERM handler:
\* when the handler has sent its Shutdown, the code it interrupted was not
\* waiting in a recv().
C18_OneOutstandingRequest ==
    dpc = "shutdown_recv_ack" => dret \notin DriverRecvPositions

----------------------------------------------------------------------------
(* C19 *)

\* C19: no snapshot is orphaned: whenever the Driver is between operations
\* and shutdown() has not been called, the Suspended processes are exactly
\* the pids held in checkpoint_pids, and no pid is held twice.
C19_NoOrphanedSnapshot ==
    dpc = "idle" =>
        /\ {p \in Pids : Suspended(p)} = StackPids
        /\ Cardinality(StackPids) = Len(checkpoint_pids)

\* Two submits, an undo and a third submit have returned: two snapshots
\* are suspended and held, the resumed one is the current Kernel.
C19_Witness ==
    /\ dpc = "idle"
    /\ Len(checkpoint_pids) = 2
    /\ Completed("undo") = 1
    /\ klog[kernel_pid].resumed
    /\ kernel_pid \notin StackPids
    /\ \A p \in StackPids : Suspended(p)

----------------------------------------------------------------------------
(* C20 *)

\* C20: whenever the Driver is between operations, kernel_pid is the pid of
\* the single Running Kernel, and every Running Kernel's self.pid is its
\* own process id.
C20_CurrentWorkerIsTheRunningKernel ==
    BetweenOps /\ dpc # "down" =>
        /\ RunningPids = {kernel_pid}
        /\ \A p \in RunningPids : self_pid[p] = p

====
